---- MODULE Spec2Model ----
(***************************************************************************)
(* Model of the dashboard's aggregation, binning and loading code:         *)
(*   dashboard/src/utils/dataProcessor.ts   (processData, calculateKPIs,   *)
(*       average, median, percentile, generateSampleData)                  *)
(*   dashboard/src/components/HistogramChart.tsx   (createHistogram and    *)
(*       the component's isClient gate)                                    *)
(*   dashboard/src/app/page.tsx   (Home: mount effect, fetch and its       *)
(*       promise chain, loading gate)                                      *)
(*                                                                         *)
(* Spec is the behaviour of callers of the functions, PageSpec that of     *)
(* the page.                                                               *)
(*                                                                         *)
(* Input numbers are written as rationals <<n, d>> in lowest terms with    *)
(* d > 0; the value `undefined` that an out-of-range array read yields is  *)
(* the pair <<0, 0>>.  The statistics of dataProcessor.ts are computed on  *)
(* the rationals (IEEE rounding is not modelled there).  createHistogram   *)
(* is computed in IEEE 754 binary64 with round-to-nearest-even, as its bin *)
(* edges are sums and products of a rounded bin width.                     *)
(***************************************************************************)
EXTENDS Integers, Sequences, FiniteSets, TLC

\* ------------------------------------------------------------------ bounds
\* longest input array drawn
MaxLen == 4
\* longest array of numbers drawn for createHistogram
MaxValues == 3
\* largest explicit numBins drawn (the default of 20 is drawn as well)
MaxBins == 4
\* most samples in a dataset drawn
MaxSamples == 3
\* most samples in a dataset getFilteredExamples reads: more than the five it shows
MaxExamples == 7
\* most 100 ms timers pending at a time
MaxTimers == 3
\* most entries of top_missed_terms_rare drawn, the list of 51 entries apart
MaxTerms == 2

\* ----------------------------------------------------------- number values
Abs(x) == IF x < 0 THEN -x ELSE x

RECURSIVE GCD(_, _)
GCD(a, b) == IF b = 0 THEN a ELSE GCD(b, a % b)

\* the number n/d (d # 0) in lowest terms with a positive denominator
Rat(n, d) ==
    LET g == GCD(Abs(n), Abs(d))
        s == IF d < 0 THEN -1 ELSE 1
    IN  <<(s * n) \div g, (s * d) \div g>>

\* an integer literal
R(n) == <<n, 1>>

\* the value of an array read past the end, sorted[index] with index >= length
Undefined == <<0, 0>>

\* a + b and a - b over the least common denominator
RAdd(a, b) ==
    LET g == GCD(a[2], b[2])
    IN  Rat(a[1] * (b[2] \div g) + b[1] * (a[2] \div g), (a[2] \div g) * b[2])
RSub(a, b) == RAdd(a, <<-b[1], b[2]>>)
RMul(a, b) == Rat(a[1] * b[1], a[2] * b[2])
\* a / b for b # 0
RDiv(a, b) == Rat(a[1] * b[2], a[2] * b[1])
RLt(a, b) == a[1] * b[2] < b[1] * a[2]
RLe(a, b) == a[1] * b[2] <= b[1] * a[2]
RGe(a, b) == RLe(b, a)

\* Math.floor and Math.ceil of a number, as integers
Floor(a) == a[1] \div a[2]
Ceil(a) == -((-a[1]) \div a[2])

\* Math.max(0, index)
MaxInt(a, b) == IF a >= b THEN a ELSE b

\* --------------------------------------------- IEEE 754 binary64 arithmetic
\* A natural number is the sequence of its digits to the base LimbBase, the least
\* significant first and the most significant not zero; zero is the empty sequence.
LimbBits == 15
LimbBase == 32768
MantissaBits == 53

\* 2^k for 0 <= k <= LimbBits
PowersOfTwo ==
    <<1, 2, 4, 8, 16, 32, 64, 128, 256, 512, 1024, 2048, 4096, 8192, 16384, 32768>>
Pow2(k) == PowersOfTwo[k + 1]

RECURSIVE NNorm(_)
NNorm(a) ==
    IF a = <<>> THEN a
    ELSE IF a[Len(a)] = 0 THEN NNorm(SubSeq(a, 1, Len(a) - 1))
    ELSE a

RECURSIVE NFromInt(_)
NFromInt(k) == IF k = 0 THEN <<>> ELSE <<k % LimbBase>> \o NFromInt(k \div LimbBase)

RECURSIVE NToInt(_)
NToInt(a) == IF a = <<>> THEN 0 ELSE a[1] + LimbBase * NToInt(Tail(a))

\* the digit of a at place k, zero past the end
Limb(a, k) == IF 1 <= k /\ k <= Len(a) THEN a[k] ELSE 0

\* -1, 0 or 1 as a is below, equal to or above b
RECURSIVE NCmpFrom(_, _, _)
NCmpFrom(a, b, k) ==
    IF k = 0 THEN 0
    ELSE IF a[k] < b[k] THEN -1
    ELSE IF a[k] > b[k] THEN 1
    ELSE NCmpFrom(a, b, k - 1)

NCmp(a, b) ==
    IF Len(a) < Len(b) THEN -1
    ELSE IF Len(a) > Len(b) THEN 1
    ELSE NCmpFrom(a, b, Len(a))

RECURSIVE NAddFrom(_, _, _, _)
NAddFrom(a, b, k, carry) ==
    IF k > Len(a) /\ k > Len(b)
    THEN IF carry = 0 THEN <<>> ELSE <<carry>>
    ELSE LET t == Limb(a, k) + Limb(b, k) + carry
         IN  <<t % LimbBase>> \o NAddFrom(a, b, k + 1, t \div LimbBase)

NAdd(a, b) == NAddFrom(a, b, 1, 0)

\* a - b for a >= b
RECURSIVE NSubFrom(_, _, _, _)
NSubFrom(a, b, k, borrow) ==
    IF k > Len(a) THEN <<>>
    ELSE LET t == a[k] - Limb(b, k) - borrow
         IN  IF t < 0 THEN <<t + LimbBase>> \o NSubFrom(a, b, k + 1, 1)
             ELSE <<t>> \o NSubFrom(a, b, k + 1, 0)

NSub(a, b) == NNorm(NSubFrom(a, b, 1, 0))

\* a * f for 0 <= f <= LimbBase
RECURSIVE NMulFrom(_, _, _, _)
NMulFrom(a, f, k, carry) ==
    IF k > Len(a) THEN NFromInt(carry)
    ELSE LET t == a[k] * f + carry
         IN  <<t % LimbBase>> \o NMulFrom(a, f, k + 1, t \div LimbBase)

NMulSmall(a, f) == IF f = 0 THEN <<>> ELSE NMulFrom(a, f, 1, 0)

\* a * 2^s for a # 0: whole digits of zeros below, every digit moved up by the factor
\* up < LimbBase, what passes LimbBase \div up = down carried into the next digit
NShlBy(a, whole, up, down) ==
    [k \in 1..whole |-> 0]
        \o [k \in 1..Len(a) |-> (a[k] % down) * up + Limb(a, k - 1) \div down]
        \o (IF a[Len(a)] \div down = 0 THEN <<>> ELSE <<a[Len(a)] \div down>>)

NShlUp(a, whole, up) == NShlBy(a, whole, up, LimbBase \div up)

\* a * 2^s
NShl(a, s) ==
    IF a = <<>> THEN a ELSE NShlUp(a, s \div LimbBits, Pow2(s % LimbBits))

\* the k upper bits of limb, a number of k bits, brought one by one into the remainder
\* r of a division by d: q the bits of the quotient, r the remainder left (d < 2^30)
RECURSIVE DivBits(_, _, _, _, _)
DivBits(r, limb, k, d, q) ==
    IF k = 0 THEN [q |-> q, r |-> r]
    ELSE LET half == LimbBase \div 2
             t == 2 * r + limb \div half
             rest == 2 * (limb % half)
         IN  IF t >= d THEN DivBits(t - d, rest, k - 1, d, 2 * q + 1)
             ELSE DivBits(t, rest, k - 1, d, 2 * q)

\* the quotient q and the remainder r of a by d, 0 < d < 2^30
RECURSIVE NDivFrom(_, _, _, _)
NDivFrom(a, d, k, r) ==
    IF k = 0 THEN [q |-> <<>>, r |-> r]
    ELSE LET step == DivBits(r, a[k], LimbBits, d, 0)
             rest == NDivFrom(a, d, k - 1, step.r)
         IN  [q |-> Append(rest.q, step.q), r |-> rest.r]

\* the same for 0 < d <= LimbBase, a digit at a time
RECURSIVE NDivSmallFrom(_, _, _, _)
NDivSmallFrom(a, d, k, r) ==
    IF k = 0 THEN [q |-> <<>>, r |-> r]
    ELSE LET t == r * LimbBase + a[k]
             rest == NDivSmallFrom(a, d, k - 1, t % d)
         IN  [q |-> Append(rest.q, t \div d), r |-> rest.r]

NDivResult(t) == [q |-> NNorm(t.q), r |-> t.r]

NDivInt(a, d) ==
    NDivResult(IF d <= LimbBase THEN NDivSmallFrom(a, d, Len(a), 0)
               ELSE NDivFrom(a, d, Len(a), 0))

\* floor(a / 2^whole digits / down), down < LimbBase a power of two, and whether a bit
\* that is set was shifted out
NShrBy(a, whole, down) ==
    IF Len(a) <= whole THEN [q |-> <<>>, lost |-> a # <<>>]
    ELSE [q |-> NNorm([k \in 1..(Len(a) - whole) |->
                          a[whole + k] \div down
                              + (Limb(a, whole + k + 1) % down) * (LimbBase \div down)]),
          lost |-> a[whole + 1] % down # 0 \/ \E k \in 1..whole : a[k] # 0]

\* floor(a / 2^s), and whether a bit that is set was shifted out
NShr(a, s) == NShrBy(a, s \div LimbBits, Pow2(s % LimbBits))

RECURSIVE IntBits(_)
IntBits(k) == IF k = 0 THEN 0 ELSE 1 + IntBits(k \div 2)

\* the number of bits of a
NBits(a) == IF a = <<>> THEN 0 ELSE LimbBits * (Len(a) - 1) + IntBits(a[Len(a)])

NOdd(a) == a # <<>> /\ a[1] % 2 = 1

\* A finite double is sign * m * 2^e with sign 1 or -1 and m a natural number of
\* MantissaBits bits; zero has the empty m (0 and -0 are not told apart). Exponents stay
\* far from the ends of the range, so no result is subnormal or infinite.
DZero == [sign |-> 1, m |-> <<>>, e |-> 0]

\* NaN, which is no finite double
DNaN == [sign |-> 0, m |-> <<>>, e |-> 0]

\* the double sign * r * 2^e for r of MantissaBits bits, or of one bit more after a
\* carry out of the rounding
DRoundFit(sign, r, e) ==
    IF NBits(r) > MantissaBits
    THEN [sign |-> sign, m |-> NShr(r, 1).q, e |-> e + 1]
    ELSE [sign |-> sign, m |-> r, e |-> e]

\* q of MantissaBits bits rounded up when the guard bit below it is set and either
\* more was lost below the guard bit or q is odd: round to nearest, ties to even
DRoundUp(sign, q, e, guard, inexact) ==
    DRoundFit(sign, IF guard /\ (inexact \/ NOdd(q)) THEN NAdd(q, <<1>>) ELSE q, e)

\* t.q holds MantissaBits bits and the guard bit, t.lost tells of bits below it
DRoundGuard(sign, t, e, sticky) ==
    DRoundUp(sign, NShr(t.q, 1).q, e, NOdd(t.q), t.lost \/ sticky)

\* n # 0 of len bits
DRoundBits(sign, n, e, sticky, len) ==
    IF len <= MantissaBits
    THEN [sign |-> sign, m |-> NShl(n, MantissaBits - len), e |-> e - (MantissaBits - len)]
    ELSE DRoundGuard(sign, NShr(n, len - MantissaBits - 1), e + len - MantissaBits, sticky)

\* the double nearest to sign * n * 2^e, or to a value slightly above it in magnitude
\* when sticky (then n has more than MantissaBits + 1 bits): round to nearest, ties to even
DRound(sign, n, e, sticky) ==
    IF n = <<>> THEN DZero ELSE DRoundBits(sign, n, e, sticky, NBits(n))

\* the double nearest to sign * (t.q + t.r / d) * 2^e for a quotient t.q and remainder
\* t.r of a division by d
DRoundDiv(sign, t, e) == DRound(sign, t.q, e, t.r # 0)

\* the double a decimal literal or a JSON number with the value n/d denotes
DFromRat(x) ==
    DRoundDiv(IF x[1] < 0 THEN -1 ELSE 1,
              NDivInt(NShl(NFromInt(Abs(x[1])), 3 * MantissaBits), x[2]),
              -(3 * MantissaBits))

DNeg(x) == [x EXCEPT !.sign = -x.sign]

\* sx * a * 2^e + sy * b * 2^e, c the comparison of a with b
DAddCompared(sx, a, sy, b, e, c) ==
    DRound(IF sx = sy \/ c > 0 THEN sx ELSE sy,
           IF sx = sy THEN NAdd(a, b) ELSE IF c >= 0 THEN NSub(a, b) ELSE NSub(b, a),
           e, FALSE)

DAddAligned(sx, a, sy, b, e) == DAddCompared(sx, a, sy, b, e, NCmp(a, b))

\* x + y for x # 0 and y # 0, e the smaller exponent
DAddAt(x, y, e) == DAddAligned(x.sign, NShl(x.m, x.e - e), y.sign, NShl(y.m, y.e - e), e)

\* x + y
DAdd(x, y) ==
    IF x.m = <<>> THEN y
    ELSE IF y.m = <<>> THEN x
    ELSE DAddAt(x, y, IF x.e < y.e THEN x.e ELSE y.e)

DSub(x, y) == DAdd(x, DNeg(y))

\* i * x for an integer 0 <= i <= LimbBase
DMulInt(i, x) == DRound(x.sign, NMulSmall(x.m, i), x.e, FALSE)

\* x / k for an integer 0 < k < 2^30
DDivInt(x, k) ==
    DRoundDiv(x.sign, NDivInt(NShl(x.m, 2 * MantissaBits), k), x.e - 2 * MantissaBits)

\* -1, 0 or 1 as |x| is below, equal to or above |y|
DCmpMag(x, y) ==
    IF x.m = <<>> THEN (IF y.m = <<>> THEN 0 ELSE -1)
    ELSE IF y.m = <<>> THEN 1
    ELSE IF x.e < y.e THEN -1
    ELSE IF x.e > y.e THEN 1
    ELSE NCmp(x.m, y.m)

\* sx and sy the signs -1, 0 or 1 of x and y
DCmpSigned(x, y, sx, sy) ==
    IF sx < sy THEN -1
    ELSE IF sx > sy THEN 1
    ELSE DCmpMag(IF sx >= 0 THEN x ELSE y, IF sx >= 0 THEN y ELSE x)

\* -1, 0 or 1 as x is below, equal to or above y
DCmp(x, y) ==
    DCmpSigned(x, y, IF x.m = <<>> THEN 0 ELSE x.sign, IF y.m = <<>> THEN 0 ELSE y.sign)

DLt(x, y) == DCmp(x, y) < 0
DLe(x, y) == DCmp(x, y) <= 0
DGe(x, y) == DCmp(x, y) >= 0

\* the integer nearest to t * 2^e / 2, the larger one of two
DHalfRounded(t, e) ==
    IF e >= 0 THEN NShr(NShl(t, e), 1).q
    ELSE NShr(NAdd(t, NShl(<<1>>, -e)), 1 - e).q

\* x.toFixed(2) of a double: the sign and the number of hundredths printed, the integer
\* nearest to 100 |x|, the larger one of two
DToFixed2(x) ==
    [neg |-> x.sign < 0 /\ x.m # <<>>,
     hundredths |-> NToInt(DHalfRounded(NMulSmall(x.m, 200), x.e))]

\* ------------------------------------------------------------------ arrays
RECURSIVE SeqsUpTo(_, _)
SeqsUpTo(S, n) ==
    IF n = 0 THEN {<<>>}
    ELSE LET shorter == SeqsUpTo(S, n - 1)
         IN  shorter \cup {Append(s, x) : s \in {t \in shorter : Len(t) = n - 1}, x \in S}

\* the elements of s that belong to the set V, in ascending order: the least value of V
\* as often as s holds it, then the rest
RECURSIVE Ascending(_, _)
Ascending(s, V) ==
    IF V = {} THEN <<>>
    ELSE LET m == CHOOSE v \in V : \A w \in V : RLe(v, w)
             copies == Cardinality({k \in 1..Len(s) : s[k] = m})
         IN  [k \in 1..copies |-> m] \o Ascending(s, V \ {m})

\* the order Array.prototype.sort((a, b) => a - b) leaves: ascending
SortAsc(s) == Ascending(s, {s[k] : k \in 1..Len(s)})

\* Math.min(...values) and Math.max(...values) of a non-empty array of doubles
MathMin(s) ==
    LET V == {s[k] : k \in 1..Len(s)} IN CHOOSE v \in V : \A w \in V : DLe(v, w)

MathMax(s) ==
    LET V == {s[k] : k \in 1..Len(s)} IN CHOOSE v \in V : \A w \in V : DLe(w, v)

\* the doubles an array holds: the model writes an element as the number n/d of its
\* decimal literal, the array element is the double nearest to it
Doubles(s) ==
    LET D == {<<x, DFromRat(x)>> : x \in {s[k] : k \in 1..Len(s)}}
    IN  [k \in 1..Len(s) |-> (CHOOSE p \in D : p[1] = s[k])[2]]

\* ------------------------------------------------------------ createHistogram
NumBinsDefault == 20

\* values.filter((v) => v >= binStart && v < binEnd).length: the elements whose value
\* is one of the values inside the bin
BinCount(values, binStart, binEnd) ==
    LET inside == {v \in {values[k] : k \in 1..Len(values)} :
                      DGe(v, binStart) /\ DLt(v, binEnd)}
    IN  Cardinality({k \in 1..Len(values) : values[k] \in inside})

\* lines 45-49: the bin pushed for binStart and binEnd
histogramBin(values, binStart, binEnd) ==
    [range |-> <<DToFixed2(binStart), DToFixed2(binEnd)>>,
     count |-> BinCount(values, binStart, binEnd),
     x |-> binStart]

\* line 42: const binEnd = binStart + binWidth
histogramBinFrom(values, binStart, binWidth) ==
    histogramBin(values, binStart, DAdd(binStart, binWidth))

\* lines 40-41: the loop over i = 0 .. numBins - 1 with binStart = min + i * binWidth
\* (bin i of the code is element i + 1 here)
histogramLoop(values, min, binWidth, numBins) ==
    [j \in 1..numBins |->
        histogramBinFrom(values, DAdd(min, DMulInt(j - 1, binWidth)), binWidth)]

\* line 36: const binWidth = (max - min) / numBins
histogramRange(values, min, max, numBins) ==
    histogramLoop(values, min, DDivInt(DSub(max, min), numBins), numBins)

\* lines 34-35: min and max of the doubles
histogramOfDoubles(values, numBins) ==
    histogramRange(values, MathMin(values), MathMax(values), numBins)

\* lines 34-52 for a non-empty array: the bins pushed by the loop, in order, every
\* operation rounded as the doubles of the code
histogramBins(values, numBins) == histogramOfDoubles(Doubles(values), numBins)

\* createHistogram without its early return: on an empty array min is Infinity, max is
\* -Infinity, every binStart is NaN and every count 0
createHistogramNoEarlyReturn(values, numBins) ==
    IF Len(values) = 0
    THEN [outcome |-> "returned",
          ret |-> [j \in 1..numBins |->
                    [range |-> <<[neg |-> FALSE, hundredths |-> 0, nan |-> TRUE],
                               [neg |-> FALSE, hundredths |-> 0, nan |-> TRUE]>>,
                     count |-> 0, x |-> DNaN]],
          values |-> values]
    ELSE [outcome |-> "returned", ret |-> histogramBins(values, numBins),
          values |-> values]

\* the last createHistogram call: numBins and the bins returned
VARIABLE hist

\* createHistogram whose bins array is declared outside the function and so keeps the
\* bins of the calls before
createHistogramSharedBins(values, numBins) ==
    IF Len(values) = 0 THEN [outcome |-> "returned", ret |-> <<>>, values |-> values]
    ELSE [outcome |-> "returned", ret |-> hist.ret \o histogramBins(values, numBins),
          values |-> values]

\* createHistogram(values, numBins): the function has no throw statement and ends in
\* `return bins` (outcome "returned"); ret is the array returned, values the caller's
\* array after the call (Math.min(...values), Math.max(...values) and values.filter only
\* read it). For numBins <= 0 the loop body never runs and bins is returned empty.
createHistogram(values, numBins) ==
    IF Len(values) = 0 THEN [outcome |-> "returned", ret |-> <<>>, values |-> values]
    ELSE [outcome |-> "returned", ret |-> histogramBins(values, numBins),
          values |-> values]

\* -------------------------------------------------------------- dataProcessor
\* arr used in place of [...arr]: no new array, ref names the caller's array
spreadAlias(heap, r) == [heap |-> heap, ref |-> r]

\* [...arr]: a new array holding arr's elements, allocated beside the caller's array r
\* in the heap; ref names the new array
spread(heap, r) == [heap |-> [heap EXCEPT !.copy = heap[r]], ref |-> "copy"]

\* Array.prototype.sort((a, b) => a - b): sorts the array r in place
ArraySort(heap, r) == [heap EXCEPT ![r] = SortAsc(heap[r])]

\* arr.reduce((sum, val) => sum + val, 0): the sum of the elements (exact addition is
\* associative, the halves are summed apart)
RECURSIVE Sum(_)
Sum(s) ==
    IF s = <<>> THEN R(0)
    ELSE IF Len(s) = 1 THEN RAdd(R(0), s[1])
    ELSE LET h == Len(s) \div 2
         IN  RAdd(Sum(SubSeq(s, 1, h)), Sum(SubSeq(s, h + 1, Len(s))))

average(arr) ==
    IF Len(arr) = 0 THEN R(0)
    ELSE RDiv(Sum(arr), R(Len(arr)))

\* median that returns the upper central element for an even length as well
medianUpperCentral(arr) ==
    IF Len(arr) = 0 THEN [ret |-> R(0), arr |-> arr]
    ELSE LET c == spread([arr |-> arr, copy |-> <<>>], "arr")
             heap == ArraySort(c.heap, c.ref)
             sorted == heap[c.ref]
             mid == Len(sorted) \div 2
         IN  [ret |-> sorted[mid + 1], arr |-> heap.arr]

\* ret is the value returned, arr the caller's array after the call
median(arr) ==
    IF Len(arr) = 0 THEN [ret |-> R(0), arr |-> arr]
    ELSE LET c == spread([arr |-> arr, copy |-> <<>>], "arr")
             heap == ArraySort(c.heap, c.ref)
             sorted == heap[c.ref]
             mid == Len(sorted) \div 2
         IN  [ret |-> IF Len(sorted) % 2 = 0
                      THEN RDiv(RAdd(sorted[mid], sorted[mid + 1]), R(2))
                      ELSE sorted[mid + 1],
              arr |-> heap.arr]

\* percentile with Math.floor in place of Math.ceil
percentileFloor(arr, p) ==
    IF Len(arr) = 0 THEN [ret |-> R(0), arr |-> arr]
    ELSE LET sorted == SortAsc(arr)
             index == Floor(RMul(RDiv(p, R(100)), R(Len(sorted)))) - 1
         IN  [ret |-> IF MaxInt(0, index) < Len(sorted) THEN sorted[MaxInt(0, index) + 1]
                      ELSE Undefined,
              arr |-> arr]

\* percentile that reads the rank below the complement: the (100 - p)th percentile
percentileComplement(arr, p) ==
    IF Len(arr) = 0 THEN [ret |-> R(0), arr |-> arr]
    ELSE LET sorted == SortAsc(arr)
             index == Ceil(RMul(RDiv(RSub(R(100), p), R(100)), R(Len(sorted)))) - 1
         IN  [ret |-> IF MaxInt(0, index) < Len(sorted) THEN sorted[MaxInt(0, index) + 1]
                      ELSE Undefined,
              arr |-> sorted]

\* sorted[i] for a 0-based i >= 0: undefined past the end
At(sorted, i) == IF i < Len(sorted) THEN sorted[i + 1] ELSE Undefined

percentile(arr, p) ==
    IF Len(arr) = 0 THEN [ret |-> R(0), arr |-> arr]
    ELSE LET c == spread([arr |-> arr, copy |-> <<>>], "arr")
             heap == ArraySort(c.heap, c.ref)
             sorted == heap[c.ref]
             index == Ceil(RMul(RDiv(p, R(100)), R(Len(sorted)))) - 1
         IN  [ret |-> At(sorted, MaxInt(0, index)), arr |-> heap.arr]

\* the literal 0.5 of data.wer.filter((w) => w >= 0.5)
HighWerThreshold == Rat(1, 2)

\* the high-rate with w > threshold in place of w >= threshold
highWerPctStrict(wer, threshold) ==
    RMul(RDiv(R(Cardinality({k \in 1..Len(wer) : RLt(threshold, wer[k])})), R(Len(wer))),
         R(100))

\* the high-rate with w <= threshold in place of w >= threshold
highWerPctBelow(wer, threshold) ==
    RMul(RDiv(R(Cardinality({k \in 1..Len(wer) : RLe(wer[k], threshold)})), R(Len(wer))),
         R(100))

\* (wer.filter((w) => w >= threshold).length / wer.length) * 100, wer non-empty
highWerPct(wer, threshold) ==
    RMul(RDiv(R(Cardinality({k \in 1..Len(wer) : RGe(wer[k], threshold)})), R(Len(wer))),
         R(100))

P90 == 90

\* lines 56-74: the KPIs of a dataset with at least one wer value, and the dataset after
computeKPIs(data) ==
    LET avgWer == average(data.wer)
        m == median(data.wer)
        q == percentile(m.arr, R(P90))
        wer == q.arr
    IN  [outcome |-> "returned",
         ret |-> [avgWer |-> avgWer,
                   medianWer |-> m.ret,
                   p90Wer |-> q.ret,
                   highWerPct |-> highWerPct(wer, HighWerThreshold),
                   avgDuration |-> average(data.duration_sec),
                   avgWords |-> average(data.word_count),
                   avgSpeakingRate |-> average(data.speaking_rate),
                   avgSnr |-> average(data.snr)],
         data |-> [data EXCEPT !.wer = wer]]

\* the object of lines 44-53
ZeroKPIs ==
    [avgWer |-> R(0), medianWer |-> R(0), p90Wer |-> R(0), highWerPct |-> R(0),
     avgDuration |-> R(0), avgWords |-> R(0), avgSpeakingRate |-> R(0), avgSnr |-> R(0)]

\* the arrays calculateKPIs reads once data.wer is not empty
KpiInputs == {"wer", "duration_sec", "word_count", "speaking_rate", "snr"}

\* calculateKPIs whose early return zeroes the wer statistics only
calculateKPIsZeroWerOnly(data) ==
    IF "wer" \notin DOMAIN data
    THEN [outcome |-> "threw", ret |-> ZeroKPIs, data |-> data]
    ELSE IF Len(data.wer) = 0
    THEN [outcome |-> "returned",
          ret |-> [ZeroKPIs EXCEPT !.avgDuration = average(data.duration_sec),
                                   !.avgWords = average(data.word_count),
                                   !.avgSpeakingRate = average(data.speaking_rate),
                                   !.avgSnr = average(data.snr)],
          data |-> data]
    ELSE IF ~(KpiInputs \subseteq DOMAIN data)
    THEN [outcome |-> "threw", ret |-> ZeroKPIs, data |-> data]
    ELSE computeKPIs(data)

\* a number that is not a number: 0 / 0
NaN == <<0, -1>>

\* calculateKPIs without its early return: the high-rate of no wer values is 0 / 0
calculateKPIsNoEarlyReturn(data) ==
    IF ~(KpiInputs \subseteq DOMAIN data)
    THEN [outcome |-> "threw", ret |-> ZeroKPIs, data |-> data]
    ELSE IF Len(data.wer) = 0
    THEN [outcome |-> "returned",
          ret |-> [ZeroKPIs EXCEPT !.highWerPct = NaN,
                                   !.avgDuration = average(data.duration_sec),
                                   !.avgWords = average(data.word_count),
                                   !.avgSpeakingRate = average(data.speaking_rate),
                                   !.avgSnr = average(data.snr)],
          data |-> data]
    ELSE computeKPIs(data)

\* calculateKPIs(data): outcome is "returned" with the KPIs object ret, or "threw" (a
\* TypeError: data.wer.length with no wer array, or arr.length inside average for an array
\* the dataset lacks; ret is then not a result); data is the caller's dataset after
calculateKPIs(data) ==
    IF "wer" \notin DOMAIN data
    THEN [outcome |-> "threw", ret |-> ZeroKPIs, data |-> data]
    ELSE IF Len(data.wer) = 0
    THEN [outcome |-> "returned", ret |-> ZeroKPIs, data |-> data]
    ELSE IF ~(KpiInputs \subseteq DOMAIN data)
    THEN [outcome |-> "threw", ret |-> ZeroKPIs, data |-> data]
    ELSE computeKPIs(data)

\* ------------------------------------------------ ErrorExamples.tsx, ScatterChart
\* the "" of data.pred_text?.[i] || ""
EmptyText == <<>>

\* data.pred_text?.[i] || "" with i 0-based: the text, or "" where the dataset has none
TextAt(data, field, i) ==
    IF field \in DOMAIN data /\ i < Len(data[field]) THEN data[field][i + 1] ELSE EmptyText

\* the filter callback with wer >= 0.2 for the medium filter replaced by wer > 0.2
matchesFilterOpenMedium(wer, werFilter) ==
    IF werFilter = "high" THEN RGe(wer, Rat(1, 2))
    ELSE IF werFilter = "medium" THEN RLt(Rat(1, 5), wer) /\ RLt(wer, Rat(1, 2))
    ELSE RLt(wer, Rat(1, 5))

\* the callback of .filter(...) in getFilteredExamples, on item.wer
matchesFilter(wer, werFilter) ==
    IF werFilter = "high" THEN RGe(wer, Rat(1, 2))
    ELSE IF werFilter = "medium" THEN RGe(wer, Rat(1, 5)) /\ RLt(wer, Rat(1, 2))
    ELSE RLt(wer, Rat(1, 5))

\* the .slice(0, 5) of getFilteredExamples
ExamplesShown == 5

\* the examples of data.wer as the .map(...) builds them
ExampleItems(data) ==
    [k \in 1..Len(data.wer) |->
        [wer |-> data.wer[k], pred |-> TextAt(data, "pred_text", k - 1),
         gt |-> TextAt(data, "gt_text", k - 1), index |-> k - 1]]

\* getFilteredExamples that takes the first five samples and filters them afterwards
getFilteredExamplesSliceFirst(data, werFilter) ==
    IF "wer" \notin DOMAIN data \/ Len(data.wer) = 0 THEN <<>>
    ELSE LET items == ExampleItems(data)
             first == SubSeq(items, 1, IF Len(items) < ExamplesShown THEN Len(items)
                                       ELSE ExamplesShown)
         IN  SelectSeq(first, LAMBDA item : matchesFilter(item.wer, werFilter))

\* getFilteredExamples(): werFilter is the component's prop
getFilteredExamples(data, werFilter) ==
    IF "wer" \notin DOMAIN data \/ Len(data.wer) = 0 THEN <<>>
    ELSE LET filtered == SelectSeq(ExampleItems(data),
                                   LAMBDA item : matchesFilter(item.wer, werFilter))
         IN  SubSeq(filtered, 1, IF Len(filtered) < ExamplesShown THEN Len(filtered)
                                 ELSE ExamplesShown)

MAX_POINTS == 5000

\* the sampling with Math.floor in place of Math.ceil
samplePointsFloorStep(chartData) ==
    IF Len(chartData) > MAX_POINTS
    THEN LET step == Len(chartData) \div MAX_POINTS
         IN  [isSampled |-> TRUE,
              sampledData |-> SelectSeq([k \in 1..Len(chartData) |-> <<k - 1, chartData[k]>>],
                                         LAMBDA e : e[1] % step = 0)]
    ELSE [isSampled |-> FALSE,
          sampledData |-> [k \in 1..Len(chartData) |-> <<k - 1, chartData[k]>>]]

\* ScatterChart's sampling of chartData, the points left by the outlier filters:
\* sampledData pairs each point kept with its index in chartData
samplePoints(chartData) ==
    IF Len(chartData) > MAX_POINTS
    THEN LET step == Ceil(Rat(Len(chartData), MAX_POINTS))
         IN  [isSampled |-> TRUE,
              sampledData |-> SelectSeq([k \in 1..Len(chartData) |-> <<k - 1, chartData[k]>>],
                                         LAMBDA e : e[1] % step = 0)]
    ELSE [isSampled |-> FALSE,
          sampledData |-> [k \in 1..Len(chartData) |-> <<k - 1, chartData[k]>>]]

\* ------------------------------- page.tsx feature selection, MedicalTermsWordCloud
\* the values of the features list
Features ==
    {"duration_sec", "speaking_rate", "energy", "snr", "word_count", "avg_word_len", "zcr",
     "spectral_centroid", "silence_ratio"}

\* useState<string>("duration_sec")
InitialFeature == "duration_sec"

\* the card of the feature histogram: the values passed to HistogramChart and the
\* caption below it, shown is whether the <p> is rendered and outliers the number in it
FeatureCard(d, feature) ==
    LET over400 == Len(SelectSeq(d.duration_sec, LAMBDA v : RLt(R(400), v)))
    IN  [chartData |-> IF feature = "duration_sec"
                       THEN SelectSeq(d[feature], LAMBDA v : RLe(v, R(100)))
                       ELSE d[feature],
         caption |-> IF feature = "duration_sec" /\ over400 > 0
                     THEN [shown |-> TRUE, outliers |-> over400]
                     ELSE [shown |-> FALSE, outliers |-> 0]]

\* Math.max(24, Math.min(96, term.missed_count * 6))
wordSize(missed_count) ==
    LET m == IF missed_count * 6 < 96 THEN missed_count * 6 ELSE 96
    IN  MaxInt(24, m)

\* the .slice(0, 50) of the layout effect
WordsLaidOut == 50

\* wordsData of the layout effect
wordsData(termData) ==
    LET terms == termData.top_missed_terms_rare
        first == SubSeq(terms, 1, IF Len(terms) < WordsLaidOut THEN Len(terms)
                                  ELSE WordsLaidOut)
    IN  [k \in 1..Len(first) |->
            [text |-> first[k].term, size |-> wordSize(first[k].missed_count),
             missed_count |-> first[k].missed_count,
             total_occurrences |-> first[k].total_occurrences,
             miss_rate |-> first[k].miss_rate]]

\* ------------------------------------------------------------------- inputs
\* the numbers arrays are drawn from: negative, zero, the 0.5 threshold, above it
Numbers == {R(-1), R(0), Rat(1, 2), R(2)}
Arrays == SeqsUpTo(Numbers, MaxLen)

\* numBins of createHistogram: the default, small positive ones, zero and a negative one
BinCounts == (-1..MaxBins) \cup {NumBinsDefault}

\* p of percentile(arr, p): below, at and above the ends of 0..100
Percents == {R(-50), R(0), R(25), R(50), R(P90), R(100), R(150)}

\* thresholds of the high-rate: the code's 0.5 and values around it
Thresholds == {R(0), Rat(1, 5), HighWerThreshold, R(1)}

\* one sample's measurements: wer and a feature profile, speaking_rate = words / duration
WerValues == {R(0), Rat(1, 5), Rat(1, 2), Rat(9, 10)}
Profiles ==
    {[duration_sec |-> R(10), word_count |-> R(25), snr |-> R(12), energy |-> Rat(1, 100),
      zcr |-> Rat(1, 10), spectral_centroid |-> R(1500), silence_ratio |-> Rat(1, 5),
      avg_word_len |-> R(5), char_count |-> R(125), pred_text |-> "pred a",
      gt_text |-> "gt a"],
     [duration_sec |-> R(40), word_count |-> R(90), snr |-> R(-3), energy |-> Rat(1, 50),
      zcr |-> Rat(1, 5), spectral_centroid |-> R(2500), silence_ratio |-> Rat(1, 10),
      avg_word_len |-> R(6), char_count |-> R(540), pred_text |-> "pred b",
      gt_text |-> "gt b"]}
Samples ==
    {[wer |-> w, duration_sec |-> f.duration_sec, word_count |-> f.word_count,
      speaking_rate |-> RDiv(f.word_count, f.duration_sec), energy |-> f.energy,
      snr |-> f.snr, zcr |-> f.zcr, spectral_centroid |-> f.spectral_centroid,
      silence_ratio |-> f.silence_ratio, avg_word_len |-> f.avg_word_len,
      char_count |-> f.char_count, pred_text |-> f.pred_text, gt_text |-> f.gt_text] :
     w \in WerValues, f \in Profiles}

\* the thirteen arrays of interface DataPoint
FieldNames ==
    {"wer", "duration_sec", "word_count", "speaking_rate", "energy", "snr", "zcr",
     "spectral_centroid", "silence_ratio", "avg_word_len", "char_count", "pred_text",
     "gt_text"}

\* the parallel arrays of a sequence of samples
Columns(rows) == [f \in FieldNames |-> [i \in 1..Len(rows) |-> rows[i][f]]]

ParallelDatasets == {Columns(rows) : rows \in SeqsUpTo(Samples, MaxSamples)}

\* datasets with no wer values whose other arrays are not empty
FeatureArrays == {<<>>, <<R(3)>>, <<R(-2), R(7)>>}
NoWerDatasets ==
    {[Columns(<<>>) EXCEPT !.duration_sec = a, !.word_count = b, !.speaking_rate = c,
                           !.snr = d] :
     a \in FeatureArrays, b \in FeatureArrays, c \in FeatureArrays, d \in FeatureArrays}

Datasets == ParallelDatasets \cup NoWerDatasets

\* ------------------------------------------------- generateSampleData, processData
\* n of generateSampleData
SampleCount == 500

RMax(a, b) == IF RLt(a, b) THEN b ELSE a
RMin(a, b) == IF RLt(b, a) THEN b ELSE a

\* one iteration of the loop (lines 118-155) for index i: d holds the values the nine
\* Math.random() calls return, each in [0, 1)
generateSample(i, d) ==
    LET duration == RAdd(R(5), RMul(d.duration, R(45)))
        wordCount == R(Floor(RMul(duration, RAdd(R(2), RMul(d.rate, R(2))))))
        speakingRate == RDiv(wordCount, duration)
        avgWordLen == RAdd(R(4), RMul(d.wordLen, R(3)))
        charCount == R(Floor(RMul(wordCount, avgWordLen)))
        snr == RAdd(R(5), RMul(d.snr, R(15)))
        energy == RAdd(Rat(1, 1000), RMul(d.energy, Rat(5, 100)))
        zcr == RAdd(Rat(5, 100), RMul(d.zcr, Rat(15, 100)))
        spectralCentroid == RAdd(R(1000), RMul(d.centroid, R(2000)))
        silenceRatio == RAdd(Rat(5, 100), RMul(d.silence, Rat(3, 10)))
        baseWer == Rat(2, 10)
        durationEffect == RMax(R(0), RMul(RSub(duration, R(20)), Rat(5, 1000)))
        snrEffect == RMax(R(0), RMul(RSub(R(15), snr), Rat(1, 100)))
        rateEffect == RMax(R(0), RMul(RSub(speakingRate, R(3)), Rat(2, 100)))
        noise == RMul(RSub(d.noise, Rat(1, 2)), Rat(3, 10))
        wer == RMax(R(0), RMin(R(1),
                   RAdd(RAdd(RAdd(RAdd(baseWer, durationEffect), snrEffect), rateEffect),
                        noise)))
    IN  [wer |-> wer, duration_sec |-> duration, word_count |-> wordCount,
         speaking_rate |-> speakingRate, energy |-> energy, snr |-> snr, zcr |-> zcr,
         spectral_centroid |-> spectralCentroid, silence_ratio |-> silenceRatio,
         avg_word_len |-> avgWordLen, char_count |-> charCount,
         pred_text |-> <<"predicted", i>>, gt_text |-> <<"ground truth", i>>]

\* generateSampleData(): random[i] holds the values Math.random() returns in iteration i
generateSampleData(random) ==
    Columns([k \in 1..SampleCount |-> generateSample(k - 1, random[k - 1])])

\* a value parsed from JSON is a record of its fields, or null
JsonNull == [null |-> TRUE]

\* !rawData.wer || rawData.wer.length === 0
NoWer(rawData) == "wer" \notin DOMAIN rawData \/ Len(rawData.wer) = 0

\* processData without the sample-data branch: rawData is returned whatever wer holds
processDataPassThrough(rawData, random) ==
    IF rawData = JsonNull THEN [outcome |-> "threw", ret |-> Columns(<<>>)]
    ELSE [outcome |-> "returned", ret |-> rawData]

\* processData(rawData): reading rawData.wer of null throws a TypeError; the dataset
\* returned is the sample data or rawData itself
processData(rawData, random) ==
    IF rawData = JsonNull THEN [outcome |-> "threw", ret |-> Columns(<<>>)]
    ELSE IF NoWer(rawData) THEN [outcome |-> "returned", ret |-> generateSampleData(random)]
    ELSE [outcome |-> "returned", ret |-> rawData]

\* the values Math.random() returns in one iteration: the least ones, large ones, and
\* ones that make duration * rate fractional
RandomDraws ==
    {[duration |-> R(0), rate |-> R(0), wordLen |-> R(0), snr |-> R(0), energy |-> R(0),
      zcr |-> R(0), centroid |-> R(0), silence |-> R(0), noise |-> R(0)],
     [duration |-> Rat(8, 9), rate |-> Rat(3, 4), wordLen |-> Rat(1, 2),
      snr |-> Rat(1, 3), energy |-> Rat(1, 2), zcr |-> Rat(1, 2), centroid |-> Rat(1, 2),
      silence |-> Rat(1, 2), noise |-> Rat(9, 10)],
     [duration |-> Rat(1, 100), rate |-> R(0), wordLen |-> Rat(1, 4), snr |-> Rat(9, 10),
      energy |-> Rat(1, 4), zcr |-> Rat(1, 4), centroid |-> Rat(1, 4),
      silence |-> Rat(1, 4), noise |-> Rat(1, 2)]}

\* the random streams drawn: the least draw in odd iterations, one draw in the even ones
RandomStreams ==
    {[i \in 0..(SampleCount - 1) |->
         IF i % 2 = 0 THEN a ELSE CHOOSE z \in RandomDraws : z.duration = R(0)] :
     a \in RandomDraws}

\* loaded datasets with wer values whose duration_sec array has another length
RaggedDatasets ==
    {[Columns(<<s>>) EXCEPT !.duration_sec = a] :
     s \in Samples, a \in {f \in FeatureArrays : Len(f) # 1}}

\* JSON objects that lack arrays of DataPoint: wer alone, and no wer
PartialDatasets ==
    {[wer |-> <<w>>] : w \in WerValues} \cup {[duration_sec |-> <<R(3)>>]}

\* the values processData is called with
RawDatasets ==
    ParallelDatasets \cup {[Columns(<<>>) EXCEPT !.duration_sec = a] : a \in FeatureArrays}
        \cup RaggedDatasets \cup PartialDatasets \cup {JsonNull}

\* arrays of decimal fractions that are no doubles, with edges of the default 20 bins
\* among their elements
DecimalArrays ==
    {<<R(0), Rat(13, 20), Rat(13, 20), R(1)>>,
     <<R(0), Rat(1, 10)>>,
     <<Rat(1, 10), Rat(3, 10), Rat(1, 5)>>,
     <<Rat(7, 10), Rat(-1, 5), Rat(1, 4), Rat(7, 10)>>}

\* the arrays createHistogram is called with
HistogramArrays == SeqsUpTo(Numbers, MaxValues) \cup DecimalArrays

\* the array [1, 2, 3, 4], and arrays of ten samples and more, where the 90th percentile
\* is not the last element of the ascending order
LongArrays ==
    {<<R(1), R(2), R(3), R(4)>>,
     [k \in 1..10 |-> Rat(k, 10)],
     [k \in 1..11 |-> R(k % 3)],
     [k \in 1..20 |-> Rat(21 - k, 4)],
     [k \in 1..12 |-> Rat(1, 2)]}

\* wer values on both sides of the filters' thresholds 0.2 and 0.5, and the thresholds
ExampleWers == {Rat(1, 10), Rat(1, 5), Rat(1, 2)}

\* datasets getFilteredExamples reads: parallel wer, pred_text and gt_text, datasets
\* without one of the texts, and datasets without wer
ExampleDatasets ==
    {[wer |-> w, pred_text |-> [k \in 1..Len(w) |-> <<"pred", k>>],
      gt_text |-> [k \in 1..Len(w) |-> <<"gt", k>>]] : w \in SeqsUpTo(ExampleWers, MaxExamples)}
        \cup {[wer |-> w, gt_text |-> [k \in 1..Len(w) |-> <<"gt", k>>]] :
              w \in SeqsUpTo(ExampleWers, 2)}
        \cup {[wer |-> w, pred_text |-> <<>>] : w \in SeqsUpTo(ExampleWers, 1)}
        \cup {[pred_text |-> <<<<"pred", 1>>>>]}

WerFilters == {"high", "medium", "low"}

\* the numbers of points left by the outlier filters: none, few, around MAX_POINTS and
\* around its double
PointCounts ==
    {0, 1, MAX_POINTS - 1, MAX_POINTS, MAX_POINTS + 1, MAX_POINTS + 2500,
     2 * MAX_POINTS - 1, 2 * MAX_POINTS, 2 * MAX_POINTS + 1}

\* the points, each named by the index of its sample in the dataset
PointLists == {[k \in 1..n |-> <<"sample", 2 * k>>] : n \in PointCounts}

\* durations on both sides of the 100 s and the 400 s of the duration card
Durations == {R(100), R(200), R(400), R(500)}

\* loaded datasets of one and two samples that differ in their durations
DurationDatasets ==
    LET s == CHOOSE x \in Samples : x.wer = Rat(1, 2)
    IN  {Columns(rows) :
         rows \in SeqsUpTo({[s EXCEPT !.duration_sec = v] : v \in Durations}, 2) \ {<<>>}}

\* the features the user selects
FeatureChoices == {"duration_sec", "speaking_rate", "snr"}

\* entries of top_missed_terms_rare: missed_count * 6 below 24, between, and above 96
Terms ==
    {[term |-> "stent", missed_count |-> 1, total_occurrences |-> 4, miss_rate |-> Rat(1, 4)],
     [term |-> "edema", missed_count |-> 10, total_occurrences |-> 20,
      miss_rate |-> Rat(1, 2)],
     [term |-> "sepsis", missed_count |-> 20, total_occurrences |-> 20, miss_rate |-> R(1)]}

TermSummary ==
    [term_recall |-> Rat(1, 2), total_gt_terms |-> 44, total_missed |-> 31,
     total_hallucinated |-> 2, samples_analyzed |-> 3]

\* the bodies /data/term_error_analysis.json parses to: term data with few terms and
\* with more than 50, null, and an object that is no term data
TermBodies ==
    {[summary |-> TermSummary, top_missed_terms_rare |-> t] : t \in SeqsUpTo(Terms, MaxTerms)}
        \cup {[summary |-> TermSummary,
               top_missed_terms_rare |->
                   [k \in 1..(WordsLaidOut + 1) |->
                       [term |-> <<"term", k>>, missed_count |-> k, total_occurrences |-> 60,
                        miss_rate |-> Rat(k, 60)]]]}
        \cup {JsonNull, [error |-> "not found"]}

\* -------------------------------------------------------------------- state
VARIABLES
    entry,    \* the function a caller uses: "createHistogram", "stats" (average, median,
              \* percentile, the high-rate expression) or "calculateKPIs"
    values,   \* the array the caller holds and passes to createHistogram
    arr,      \* the array the caller holds and passes to average, median, percentile
    stat,     \* the last such call: the function, its parameter, the value returned
    data,     \* the dataset the caller holds and passes to calculateKPIs
    kpis,     \* the last calculateKPIs call: the KPIs returned
    rawData,  \* the parsed JSON the caller passes to processData
    loaded,   \* the last processData call: its outcome and the dataset returned
    examples, \* the last getFilteredExamples call: the filter and the examples returned
    points,   \* the points ScatterChart has after its outlier filters
    scatter,  \* the sampling of points: isSampled and sampledData
    home,     \* the state of component Home: isClient, data, kpis
    chart,    \* the WER HistogramChart of the page: whether mounted, and its isClient
    request,  \* the fetch of /data/wer_data.json and the promise chain on it
    screen,   \* what the last render put on the page
    selectedFeature,   \* Home's state selectedFeature
    isChangingFeature, \* Home's state isChangingFeature
    timers,       \* the newFeature of each pending 100 ms timer, in the order they were set
    requested,    \* the last handleFeatureChange call: its newFeature, and the number of
                  \* timers that were pending when it was made
    featureChart, \* what the last render put in the card of the feature histogram
    cloud,        \* the state of MedicalTermsWordCloud: isClient, termData, isLoading, words
    termsRequest, \* the fetch of /data/term_error_analysis.json and its promise chain
    layout,       \* the d3-cloud layout of the layout effect
    cloudScreen   \* what the last render of MedicalTermsWordCloud shows

callVars ==
    <<entry, values, hist, arr, stat, data, kpis, rawData, loaded, examples, points, scatter>>
pageVars == <<home, chart, request, screen>>
featureVars == <<selectedFeature, isChangingFeature, timers, requested, featureChart>>
cloudVars == <<cloud, termsRequest, layout, cloudScreen>>
vars ==
    <<entry, values, hist, arr, stat, data, kpis, rawData, loaded, examples, points, scatter,
      home, chart, request, screen, selectedFeature, isChangingFeature, timers, requested,
      featureChart, cloud, termsRequest, layout, cloudScreen>>

\* what MedicalTermsWordCloud renders for its state c; reading termData.summary or
\* termData.top_missed_terms_rare.slice of an object without them throws
WordCloudRender(c) ==
    IF ~c.isClient THEN "spinner"
    ELSE IF c.isLoading THEN "Loading medical terms..."
    ELSE IF c.termData = JsonNull THEN "No term error data available"
    ELSE IF {"summary", "top_missed_terms_rare"} \subseteq DOMAIN c.termData
    THEN "word cloud"
    ELSE "TypeError"

NoFeatureChart == [chartData |-> <<>>, caption |-> [shown |-> FALSE, outliers |-> 0]]
NoCloud == [isClient |-> FALSE, termData |-> JsonNull, isLoading |-> TRUE, words |-> <<>>]
NoTermsRequest == [stage |-> "idle", kind |-> "none", body |-> JsonNull, caught |-> FALSE]

\* the feature selection and the word cloud before anything happened to them
FeatureIdle ==
    /\ selectedFeature = InitialFeature
    /\ isChangingFeature = FALSE
    /\ timers = <<>>
    /\ requested = [newFeature |-> InitialFeature, pending |-> 0]
    /\ featureChart = NoFeatureChart

CloudIdle ==
    /\ cloud = NoCloud
    /\ termsRequest = NoTermsRequest
    /\ layout = "none"
    /\ cloudScreen = WordCloudRender(NoCloud)

NoExamples == [called |-> FALSE, werFilter |-> "high", ret |-> <<>>]
NoScatter == [called |-> FALSE, isSampled |-> FALSE, sampledData |-> <<>>]

NoHist == [called |-> FALSE, numBins |-> 0, outcome |-> "none", ret |-> <<>>]
NoStat == [fn |-> "none", param |-> R(0), ret |-> R(0)]
NoLoaded == [called |-> FALSE, outcome |-> "none", ret |-> Columns(<<>>)]
NoKpis == [called |-> FALSE, outcome |-> "none", ret |-> ZeroKPIs]

\* ------------------------------------------------------------ the page (Home)
\* useState<any>(null) of data and of kpis
InitialData == JsonNull
InitialKpis == JsonNull

\* the component state before the mount effect has run
NoHome == [isClient |-> FALSE, data |-> InitialData, kpis |-> InitialKpis]
NoChart == [mounted |-> FALSE, isClient |-> FALSE]
NoRequest == [stage |-> "idle", kind |-> "none", body |-> JsonNull, caught |-> FALSE]

\* what a HistogramChart puts on the page: nothing while it is not rendered, the text
\* "Loading chart..." while its isClient is false, the bins of its data afterwards
NoChartOutput == [text |-> "", bins |-> <<>>]
HistogramChartRender(c, chartData) ==
    IF ~c.isClient THEN [text |-> "Loading chart...", bins |-> <<>>]
    ELSE [text |-> "chart", bins |-> createHistogram(chartData, NumBinsDefault).ret]

\* the loading placeholder of lines 85-100
LoadingScreen ==
    [page |-> "Loading Dashboard...", samples |-> 0, kpis |-> JsonNull,
     chart |-> NoChartOutput]

\* data.wer.filter((w) => w <= 5.0), the data of the WER histogram
WerForChart(wer) == SelectSeq(wer, LAMBDA w : RLe(w, R(5)))

\* Home's render with a gate on data alone
RenderDataGateOnly(h, c) ==
    IF h.data = JsonNull THEN LoadingScreen
    ELSE [page |-> "dashboard", samples |-> Len(h.data.wer), kpis |-> h.kpis,
          chart |-> HistogramChartRender(c, WerForChart(h.data.wer))]

\* Home's render: the loading placeholder unless isClient, data and kpis are all set, else
\* the dashboard with the sample count, the KPI cards and the WER histogram
Render(h, c) ==
    IF ~h.isClient \/ h.data = JsonNull \/ h.kpis = JsonNull THEN LoadingScreen
    ELSE [page |-> "dashboard", samples |-> Len(h.data.wer), kpis |-> h.kpis,
          chart |-> HistogramChartRender(c, WerForChart(h.data.wer))]

\* the chart component is mounted by the first render that passes the gate
Mount(h, c) ==
    IF ~h.isClient \/ h.data = JsonNull \/ h.kpis = JsonNull THEN c
    ELSE [c EXCEPT !.mounted = TRUE]

\* the bodies a response of /data/wer_data.json is parsed to
ResponseBodies ==
    {Columns(rows) : rows \in SeqsUpTo(Samples, 1)} \cup RaggedDatasets
        \cup PartialDatasets \cup {JsonNull}

InitHistogram ==
    /\ entry = "createHistogram"
    /\ values \in HistogramArrays
    /\ arr = <<>>
    /\ data = Columns(<<>>)
    /\ rawData = Columns(<<>>)

InitStats ==
    /\ entry = "stats"
    /\ arr \in Arrays \cup LongArrays
    /\ values = <<>>
    /\ data = Columns(<<>>)
    /\ rawData = Columns(<<>>)

InitKPIs ==
    /\ entry = "calculateKPIs"
    /\ data \in Datasets
    /\ values = <<>>
    /\ arr = <<>>
    /\ rawData = Columns(<<>>)

InitProcessData ==
    /\ entry = "processData"
    /\ rawData \in RawDatasets
    /\ values = <<>>
    /\ arr = <<>>
    /\ data = Columns(<<>>)

InitExamples ==
    /\ entry = "getFilteredExamples"
    /\ data \in ExampleDatasets
    /\ values = <<>>
    /\ arr = <<>>
    /\ rawData = Columns(<<>>)

InitScatter ==
    /\ entry = "ScatterChart"
    /\ points \in PointLists
    /\ values = <<>>
    /\ arr = <<>>
    /\ data = Columns(<<>>)
    /\ rawData = Columns(<<>>)

Init ==
    /\ \/ /\ InitHistogram \/ InitStats \/ InitKPIs \/ InitProcessData \/ InitExamples
          /\ points = <<>>
       \/ InitScatter
    /\ examples = NoExamples
    /\ scatter = NoScatter
    /\ hist = NoHist
    /\ stat = NoStat
    /\ kpis = NoKpis
    /\ loaded = NoLoaded
    /\ home = NoHome
    /\ chart = NoChart
    /\ request = NoRequest
    /\ screen = Render(NoHome, NoChart)
    /\ FeatureIdle
    /\ CloudIdle

CallCreateHistogram ==
    /\ entry = "createHistogram"
    /\ \E numBins \in BinCounts :
           /\ hist.called => numBins = hist.numBins
           /\ LET r == createHistogram(values, numBins)
              IN  /\ hist' = [called |-> TRUE, numBins |-> numBins,
                               outcome |-> r.outcome, ret |-> r.ret]
                  /\ values' = r.values
    /\ UNCHANGED <<entry, arr, stat, data, kpis, rawData, loaded,
                   examples, points, scatter>>
    /\ UNCHANGED <<pageVars, featureVars, cloudVars>>

CallAverage ==
    /\ entry = "stats"
    /\ stat' = [fn |-> "average", param |-> R(0), ret |-> average(arr)]
    /\ UNCHANGED <<entry, arr, values, hist, data, kpis, rawData, loaded,
                   examples, points, scatter>>
    /\ UNCHANGED <<pageVars, featureVars, cloudVars>>

CallMedian ==
    /\ entry = "stats"
    /\ LET r == median(arr)
       IN  /\ stat' = [fn |-> "median", param |-> R(0), ret |-> r.ret]
           /\ arr' = r.arr
    /\ UNCHANGED <<entry, values, hist, data, kpis, rawData, loaded,
                   examples, points, scatter>>
    /\ UNCHANGED <<pageVars, featureVars, cloudVars>>

CallPercentile ==
    /\ entry = "stats"
    /\ \E p \in Percents :
           LET r == percentile(arr, p)
           IN  /\ stat' = [fn |-> "percentile", param |-> p, ret |-> r.ret]
               /\ arr' = r.arr
    /\ UNCHANGED <<entry, values, hist, data, kpis, rawData, loaded,
                   examples, points, scatter>>
    /\ UNCHANGED <<pageVars, featureVars, cloudVars>>

\* the high-rate expression of calculateKPIs (line 59), applied with a threshold t
CallHighWerPct ==
    /\ entry = "stats"
    /\ Len(arr) > 0
    /\ \E t \in Thresholds :
           stat' = [fn |-> "highWerPct", param |-> t, ret |-> highWerPct(arr, t)]
    /\ UNCHANGED <<entry, arr, values, hist, data, kpis, rawData, loaded,
                   examples, points, scatter>>
    /\ UNCHANGED <<pageVars, featureVars, cloudVars>>

CallCalculateKPIs ==
    /\ entry = "calculateKPIs"
    /\ LET r == calculateKPIs(data)
       IN  /\ kpis' = [called |-> TRUE, outcome |-> r.outcome, ret |-> r.ret]
           /\ data' = r.data
    /\ UNCHANGED <<entry, values, hist, arr, stat, rawData, loaded,
                   examples, points, scatter>>
    /\ UNCHANGED <<pageVars, featureVars, cloudVars>>

\* processData(rawData), called once for a parsed response as the page does; random
\* holds the values Math.random() returns should the call reach generateSampleData
CallProcessData ==
    /\ entry = "processData"
    /\ ~loaded.called
    /\ \E random \in RandomStreams :
           LET r == processData(rawData, random)
           IN  loaded' = [called |-> TRUE, outcome |-> r.outcome, ret |-> r.ret]
    /\ UNCHANGED <<entry, values, hist, arr, stat, data, kpis, rawData,
                   examples, points, scatter>>
    /\ UNCHANGED <<pageVars, featureVars, cloudVars>>

\* ErrorExamples renders: getFilteredExamples() with the werFilter prop
CallGetFilteredExamples ==
    /\ entry = "getFilteredExamples"
    /\ \E werFilter \in WerFilters :
           examples' = [called |-> TRUE, werFilter |-> werFilter,
                        ret |-> getFilteredExamples(data, werFilter)]
    /\ UNCHANGED <<entry, values, hist, arr, stat, data, kpis, rawData, loaded, points,
                   scatter>>
    /\ UNCHANGED <<pageVars, featureVars, cloudVars>>

\* ScatterChart renders: the sampling of its points
RenderScatter ==
    /\ entry = "ScatterChart"
    /\ ~scatter.called
    /\ LET r == samplePoints(points)
       IN  scatter' = [called |-> TRUE, isSampled |-> r.isSampled,
                       sampledData |-> r.sampledData]
    /\ UNCHANGED <<entry, values, hist, arr, stat, data, kpis, rawData, loaded, examples,
                   points>>
    /\ UNCHANGED <<pageVars, featureVars, cloudVars>>

Next ==
    \/ CallCreateHistogram
    \/ CallAverage
    \/ CallMedian
    \/ CallPercentile
    \/ CallHighWerPct
    \/ CallCalculateKPIs
    \/ CallProcessData
    \/ CallGetFilteredExamples
    \/ RenderScatter

Spec == Init /\ [][Next]_vars

\* ------------------------------------------------------- the page's behaviour
PageInit ==
    /\ entry = "page"
    /\ values = <<>>
    /\ arr = <<>>
    /\ data = Columns(<<>>)
    /\ rawData = Columns(<<>>)
    /\ hist = NoHist
    /\ stat = NoStat
    /\ kpis = NoKpis
    /\ loaded = NoLoaded
    /\ examples = NoExamples
    /\ points = <<>>
    /\ scatter = NoScatter
    /\ home = NoHome
    /\ chart = NoChart
    /\ request = NoRequest
    /\ screen = Render(NoHome, NoChart)
    /\ FeatureIdle
    /\ CloudIdle

\* the state left by the updates of a handler, and the render that follows them
Update(h, c, rq) ==
    /\ home' = h
    /\ chart' = Mount(h, c)
    /\ request' = rq
    /\ screen' = Render(h, Mount(h, c))
    /\ UNCHANGED <<callVars, featureVars, cloudVars>>

\* Home's useEffect: setIsClient(true) and the fetch is sent
MountEffect ==
    /\ request.stage = "idle"
    /\ Update([home EXCEPT !.isClient = TRUE], chart, [request EXCEPT !.stage = "pending"])

\* the fetch settles: it rejects, or resolves with a response that is not ok, or with an
\* ok response whose body is not JSON or parses to one of ResponseBodies
FetchSettles ==
    /\ request.stage = "pending"
    /\ \/ Update(home, chart, [request EXCEPT !.stage = "rejected", !.kind = "networkError"])
       \/ Update(home, chart, [request EXCEPT !.stage = "response", !.kind = "notOk"])
       \/ Update(home, chart, [request EXCEPT !.stage = "response", !.kind = "invalidJson"])
       \/ \E body \in ResponseBodies :
              Update(home, chart,
                     [request EXCEPT !.stage = "response", !.kind = "json", !.body = body])

\* .then((res) => ...): throws when !res.ok, else returns res.json(), which rejects for
\* a body that is not JSON
ThenResponse ==
    /\ request.stage = "response"
    /\ Update(home, chart,
              [request EXCEPT !.stage = IF request.kind = "json" THEN "json" ELSE "rejected"])

\* .then((realData) => ...): processData, setData, calculateKPIs, setKpis; a throw rejects
\* the chain, after setData when it is calculateKPIs that throws
ThenData ==
    /\ request.stage = "json"
    /\ \E random \in RandomStreams :
           LET p == processData(request.body, random)
               k == calculateKPIs(p.ret)
           IN  IF p.outcome = "threw"
               THEN Update(home, chart, [request EXCEPT !.stage = "rejected"])
               ELSE IF k.outcome = "threw"
               THEN Update([home EXCEPT !.data = p.ret], chart,
                           [request EXCEPT !.stage = "rejected"])
               ELSE Update([home EXCEPT !.data = p.ret, !.kpis = k.ret], chart,
                           [request EXCEPT !.stage = "done"])

\* a catch handler that sets the KPIs of the sample data and leaves data as it is
CatchHandlerKpisOnly ==
    /\ request.stage = "rejected"
    /\ \E random \in RandomStreams :
           LET p == processData([wer |-> <<>>], random)
               k == calculateKPIs(p.ret)
           IN  Update([home EXCEPT !.kpis = k.ret], chart,
                      [request EXCEPT !.stage = "done", !.caught = TRUE])

\* a catch handler that logs the error and sets nothing
CatchHandlerLogOnly ==
    /\ request.stage = "rejected"
    /\ Update(home, chart, [request EXCEPT !.stage = "done", !.caught = TRUE])

\* .catch((error) => ...): processData({ wer: [] }), setData, setKpis; a throw here
\* would leave the chain rejected with no handler
CatchHandler ==
    /\ request.stage = "rejected"
    /\ \E random \in RandomStreams :
           LET p == processData([wer |-> <<>>], random)
               k == calculateKPIs(p.ret)
           IN  IF p.outcome = "threw"
               THEN Update(home, chart, [request EXCEPT !.stage = "unhandled"])
               ELSE IF k.outcome = "threw"
               THEN Update([home EXCEPT !.data = p.ret], chart,
                           [request EXCEPT !.stage = "unhandled"])
               ELSE Update([home EXCEPT !.data = p.ret, !.kpis = k.ret], chart,
                           [request EXCEPT !.stage = "done", !.caught = TRUE])

\* HistogramChart's useEffect: setIsClient(true)
ChartMountEffect ==
    /\ chart.mounted
    /\ ~chart.isClient
    /\ Update(home, [chart EXCEPT !.isClient = TRUE], request)

PageNext ==
    \/ MountEffect
    \/ FetchSettles
    \/ ThenResponse
    \/ ThenData
    \/ CatchHandler
    \/ ChartMountEffect

\* the reaction that is due on the settled promise chain runs: the request leaves the
\* stage "response", "json" or "rejected" (the part of ThenResponse, ThenData and
\* CatchHandler that is about the request)
Reaction ==
    /\ request.stage \in {"response", "json", "rejected"}
    /\ \E stage \in {"json", "rejected", "done", "unhandled"}, caught \in BOOLEAN :
           request' = [request EXCEPT !.stage = stage, !.caught = caught]

\* the mount effect runs and reactions that are due run; nothing makes the fetch settle
PageSpec ==
    /\ PageInit
    /\ [][PageNext]_vars
    /\ WF_vars(MountEffect)
    /\ WF_request(Reaction)

\* ------------------------------------------- the feature selection of the page
\* Home after the data was loaded: the dashboard is shown with the initial feature
FeatureInit ==
    /\ entry = "features"
    /\ values = <<>>
    /\ arr = <<>>
    /\ data = Columns(<<>>)
    /\ rawData = Columns(<<>>)
    /\ points = <<>>
    /\ hist = NoHist
    /\ stat = NoStat
    /\ kpis = NoKpis
    /\ loaded = NoLoaded
    /\ examples = NoExamples
    /\ scatter = NoScatter
    /\ \E d \in DurationDatasets :
           home = [isClient |-> TRUE, data |-> d, kpis |-> calculateKPIs(d).ret]
    /\ chart = [mounted |-> TRUE, isClient |-> TRUE]
    /\ request = [NoRequest EXCEPT !.stage = "done", !.kind = "json", !.body = home.data]
    /\ screen = Render(home, chart)
    /\ selectedFeature = InitialFeature
    /\ isChangingFeature = FALSE
    /\ timers = <<>>
    /\ requested = [newFeature |-> InitialFeature, pending |-> 0]
    /\ featureChart = FeatureCard(home.data, InitialFeature)
    /\ CloudIdle

\* handleFeatureChange(newFeature): the loader is set and a 100 ms timer is started
handleFeatureChange ==
    /\ Len(timers) < MaxTimers
    /\ \E newFeature \in FeatureChoices :
           /\ timers' = Append(timers, newFeature)
           /\ requested' = [newFeature |-> newFeature, pending |-> Len(timers)]
    /\ isChangingFeature' = TRUE
    /\ featureChart' = FeatureCard(home.data, selectedFeature)
    /\ UNCHANGED <<selectedFeature, callVars, pageVars, cloudVars>>

\* the callback of the timer set last runs first
TimerFiresLastFirst ==
    /\ timers # <<>>
    /\ selectedFeature' = timers[Len(timers)]
    /\ isChangingFeature' = FALSE
    /\ timers' = SubSeq(timers, 1, Len(timers) - 1)
    /\ featureChart' = FeatureCard(home.data, timers[Len(timers)])
    /\ UNCHANGED <<requested, callVars, pageVars, cloudVars>>

\* the callback of the oldest pending timer runs: timers of one delay fire in the order
\* they were set
TimerFires ==
    /\ timers # <<>>
    /\ selectedFeature' = Head(timers)
    /\ isChangingFeature' = FALSE
    /\ timers' = Tail(timers)
    /\ featureChart' = FeatureCard(home.data, Head(timers))
    /\ UNCHANGED <<requested, callVars, pageVars, cloudVars>>

FeatureNext ==
    \/ handleFeatureChange
    \/ TimerFires

\* a timer that was set fires
FeatureSpec == FeatureInit /\ [][FeatureNext]_vars /\ WF_vars(TimerFires)

\* --------------------------------------------------- MedicalTermsWordCloud
CloudInit ==
    /\ entry = "MedicalTermsWordCloud"
    /\ values = <<>>
    /\ arr = <<>>
    /\ data = Columns(<<>>)
    /\ rawData = Columns(<<>>)
    /\ points = <<>>
    /\ hist = NoHist
    /\ stat = NoStat
    /\ kpis = NoKpis
    /\ loaded = NoLoaded
    /\ examples = NoExamples
    /\ scatter = NoScatter
    /\ home = NoHome
    /\ chart = NoChart
    /\ request = NoRequest
    /\ screen = Render(NoHome, NoChart)
    /\ FeatureIdle
    /\ CloudIdle

\* the state left by the updates of a handler of the word cloud, and the render after
CloudUpdate(c, rq) ==
    /\ cloud' = c
    /\ termsRequest' = rq
    /\ cloudScreen' = WordCloudRender(c)
    /\ UNCHANGED <<layout, callVars, pageVars, featureVars>>

\* the first effect: setIsClient(true) and the fetch is sent
CloudMountEffect ==
    /\ termsRequest.stage = "idle"
    /\ CloudUpdate([cloud EXCEPT !.isClient = TRUE],
                   [termsRequest EXCEPT !.stage = "pending"])

\* the fetch settles: it rejects, or resolves with a response, ok or not, whose body is
\* not JSON or parses to one of TermBodies
TermsFetchSettles ==
    /\ termsRequest.stage = "pending"
    /\ \/ CloudUpdate(cloud, [termsRequest EXCEPT !.stage = "rejected",
                                                  !.kind = "networkError"])
       \/ \E ok \in BOOLEAN :
              CloudUpdate(cloud, [stage |-> "response", kind |-> "invalidJson", ok |-> ok,
                                  body |-> JsonNull, caught |-> FALSE])
       \/ \E ok \in BOOLEAN, body \in TermBodies :
              CloudUpdate(cloud, [stage |-> "response", kind |-> "json", ok |-> ok,
                                  body |-> body, caught |-> FALSE])

\* .then((res) => res.json()): res.ok is not read
TermsThenResponse ==
    /\ termsRequest.stage = "response"
    /\ CloudUpdate(cloud, [termsRequest EXCEPT
                              !.stage = IF termsRequest.kind = "json" THEN "json"
                                        ELSE "rejected"])

\* .then((data) => { setTermData(data); setIsLoading(false); })
TermsThenData ==
    /\ termsRequest.stage = "json"
    /\ CloudUpdate([cloud EXCEPT !.termData = termsRequest.body, !.isLoading = FALSE],
                   [termsRequest EXCEPT !.stage = "done"])

\* the catch handler without its setIsLoading(false)
TermsCatchLogOnly ==
    /\ termsRequest.stage = "rejected"
    /\ CloudUpdate(cloud, [termsRequest EXCEPT !.stage = "done", !.caught = TRUE])

\* .catch((error) => { console.error(...); setIsLoading(false); })
TermsCatch ==
    /\ termsRequest.stage = "rejected"
    /\ CloudUpdate([cloud EXCEPT !.isLoading = FALSE],
                   [termsRequest EXCEPT !.stage = "done", !.caught = TRUE])

\* the layout effect after a render that committed with termData and isClient set:
\* layout.start()
LayoutEffect ==
    /\ cloud.termData # JsonNull /\ cloud.isClient
    /\ cloudScreen = "word cloud"
    /\ layout = "none"
    /\ layout' = "started"
    /\ UNCHANGED <<cloud, termsRequest, cloudScreen, callVars, pageVars, featureVars>>

\* the words of w but those at the indices dropped, in the order of w
WordsPlaced(w, dropped) ==
    LET kept == {k \in 1..Len(w) : k \notin dropped}
    IN  [j \in 1..Cardinality(kept) |->
            w[CHOOSE k \in kept : Cardinality({m \in kept : m < k}) = j - 1]]

\* the layout's "end" event: setWords(layoutWords), the words d3-cloud could place;
\* of a list of up to MaxTerms words any may be left out
LayoutEnd ==
    /\ layout = "started"
    /\ layout' = "ended"
    /\ LET w == wordsData(cloud.termData)
       IN  \E dropped \in SUBSET (1..(IF Len(w) > MaxTerms THEN 0 ELSE Len(w))) :
               cloud' = [cloud EXCEPT !.words = WordsPlaced(w, dropped)]
    /\ cloudScreen' = cloudScreen
    /\ UNCHANGED <<termsRequest, callVars, pageVars, featureVars>>

CloudNext ==
    \/ CloudMountEffect
    \/ TermsFetchSettles
    \/ TermsThenResponse
    \/ TermsThenData
    \/ TermsCatch
    \/ LayoutEffect
    \/ LayoutEnd

\* the reactions of the promise chain run once they are queued
CloudSpec ==
    CloudInit /\ [][CloudNext]_vars
        /\ WF_vars(CloudMountEffect) /\ WF_vars(TermsThenResponse)
        /\ WF_vars(TermsThenData) /\ WF_vars(TermsCatch)


\* =================================================================== claims
\* helpers of the statements below
RECURSIVE SumCounts(_)
SumCounts(bins) ==
    IF bins = <<>> THEN 0 ELSE bins[1].count + SumCounts(Tail(bins))

Elements(s) == {s[k] : k \in 1..Len(s)}
IsMin(s, v) == v \in Elements(s) /\ \A w \in Elements(s) : RLe(v, w)
IsMax(s, v) == v \in Elements(s) /\ \A w \in Elements(s) : RLe(w, v)
HistogramReturned == hist.called /\ Len(values) > 0 /\ hist.numBins >= 1

\* C1: for every non-empty input and numBins >= 1 the counts of the bins returned by
\* createHistogram sum to the number of input values.
C1_CountsSumToLength ==
    HistogramReturned => SumCounts(hist.ret) = Len(values)

\* C2: the final bin is closed on its right end: it counts every input value from its
\* start up to and including the observed maximum.
C2_LastBinCountsMaximum ==
    HistogramReturned =>
        /\ Len(hist.ret) >= 1
        /\ LET last == hist.ret[Len(hist.ret)]
           IN  last.count =
                   Cardinality({k \in 1..Len(values) : DGe(DFromRat(values[k]), last.x)})

\* C3: when all input values are identical createHistogram returns a single bin
\* starting at that value whose count is the input length.
C3_SingleBinWhenAllEqual ==
    (HistogramReturned /\ \A k \in 1..Len(values) : values[k] = values[1]) =>
        /\ Len(hist.ret) = 1
        /\ hist.ret[1].x = DFromRat(values[1])
        /\ hist.ret[1].range =
               <<DToFixed2(DFromRat(values[1])), DToFixed2(DFromRat(values[1]))>>
        /\ hist.ret[1].count = Len(values)

KpiFields ==
    {"avgWer", "medianWer", "p90Wer", "highWerPct", "avgDuration", "avgWords",
     "avgSpeakingRate", "avgSnr"}

\* C4: calculateKPIs of a dataset whose wer array is empty returns 0 for every one of
\* the eight statistics, whatever the other arrays hold.
C4_EmptyWerAllZero ==
    (kpis.called /\ Len(data.wer) = 0) =>
        /\ DOMAIN kpis.ret = KpiFields
        /\ \A f \in KpiFields : kpis.ret[f] = R(0)

\* C4 witness: calculateKPIs has returned for a dataset with no wer values whose
\* duration and snr arrays are not empty and do not average to 0.
C4_Witness ==
    /\ kpis.called
    /\ Len(data.wer) = 0
    /\ Len(data.duration_sec) > 0
    /\ Len(data.snr) > 0
    /\ average(data.duration_sec) # R(0)

\* C5: createHistogram of an empty array returns an empty list of bins for every numBins.
C5_EmptyInputNoBins ==
    (hist.called /\ Len(values) = 0) => hist.ret = <<>>

\* C5 witness: createHistogram has returned for the empty array with the default numBins.
C5_Witness ==
    hist.called /\ entry = "createHistogram" /\ values = <<>> /\ hist.numBins = NumBinsDefault

\* the k-th smallest element of s (k in 1..Len(s)), by counting
CountBelow(s, v) == Cardinality({i \in 1..Len(s) : RLt(s[i], v)})
CountUpTo(s, v) == Cardinality({i \in 1..Len(s) : RLe(s[i], v)})
KthSmallest(s, k) ==
    CHOOSE v \in Elements(s) : CountBelow(s, v) < k /\ k <= CountUpTo(s, v)

Clamp(i, lo, hi) == IF i < lo THEN lo ELSE IF i > hi THEN hi ELSE i

\* C6: for every non-empty array and every p, percentile(arr, p) is the element of the
\* ascending order at index ceil(p/100 * length) - 1 clamped to [0, length - 1], so it
\* is always an element of the input, also for p <= 0 and p > 100.
C6_PercentileNearestRankClamped ==
    (stat.fn = "percentile" /\ Len(arr) > 0) =>
        LET n == Len(arr)
            index == Ceil(RDiv(RMul(stat.param, R(n)), R(100))) - 1
        IN  /\ stat.ret = KthSmallest(arr, Clamp(index, 0, n - 1) + 1)
            /\ stat.ret \in Elements(arr)

\* C7: median(arr) is the central element of the ascending order for an odd length,
\* the average of the two central elements for an even length, and 0 for the empty array.
C7_MedianCentral ==
    stat.fn = "median" =>
        LET n == Len(arr)
        IN  IF n = 0 THEN stat.ret = R(0)
            ELSE IF n % 2 = 1 THEN stat.ret = KthSmallest(arr, (n + 1) \div 2)
            ELSE RMul(stat.ret, R(2)) =
                     RAdd(KthSmallest(arr, n \div 2), KthSmallest(arr, n \div 2 + 1))

\* C7 witness: median has returned for an unsorted array of four elements whose two
\* central elements differ, so the value returned is no element of the array.
C7_Witness ==
    /\ stat.fn = "median"
    /\ Len(arr) = 4
    /\ RLt(arr[2], arr[1])
    /\ stat.ret \notin Elements(arr)

\* the number of wer values that are at least one half
HighCount(wer) == Cardinality({k \in 1..Len(wer) : 2 * wer[k][1] >= wer[k][2]})

C9_HighRateMonotone ==
    stat.fn = "highWerPct" =>
        \A t \in Thresholds :
            /\ RLe(stat.param, t) => RGe(stat.ret, highWerPct(arr, t))
            /\ RLe(t, stat.param) => RLe(stat.ret, highWerPct(arr, t))

\* C9 witness: the high-rate has been computed with the threshold 0.5 of the code for
\* an array on which a larger threshold gives a strictly smaller rate.
C9_Witness ==
    /\ stat.fn = "highWerPct"
    /\ stat.param = HighWerThreshold
    /\ \E t \in Thresholds : RLt(stat.param, t) /\ RLt(highWerPct(arr, t), stat.ret)

\* C10: a call of createHistogram, average, median, percentile or calculateKPIs leaves
\* the caller's arrays as they were: same elements in the same order.
C10_InputsUnchanged ==
    [][values' = values /\ arr' = arr /\ data' = data]_vars

\* C10 witness: median or percentile has returned for an array that is not in
\* ascending order, so that the sort had something to move.
C10_Witness ==
    /\ stat.fn \in {"median", "percentile"}
    /\ Len(arr) >= 3
    /\ RLt(arr[2], arr[1])
    /\ RLt(arr[3], arr[2])

C12_MedianVersusP50 ==
    (stat.fn = "percentile" /\ stat.param = R(50) /\ Len(arr) > 0) =>
        LET n == Len(arr)
        IN  IF n % 2 = 1 THEN stat.ret = median(arr).ret
            ELSE /\ stat.ret = KthSmallest(arr, n \div 2)
                 /\ (stat.ret = median(arr).ret) <=>
                        (KthSmallest(arr, n \div 2) = KthSmallest(arr, n \div 2 + 1))

\* C12 witness: percentile(arr, 50) has returned for an array of four elements whose
\* two central elements differ, and the value differs from the median.
C12_Witness ==
    /\ stat.fn = "percentile" /\ stat.param = R(50)
    /\ Len(arr) = 4
    /\ KthSmallest(arr, 2) # KthSmallest(arr, 3)
    /\ stat.ret # median(arr).ret

\* every array of interface DataPoint is present and all have one length
Parallel(d) ==
    /\ FieldNames \subseteq DOMAIN d
    /\ \A f, g \in FieldNames : Len(d[f]) = Len(d[g])

\* C13: an input-contract violation is signalled to the caller as an error outcome and
\* never answered with a normal result: createHistogram called with numBins <= 0 on a
\* non-empty input, and processData of a dataset whose arrays differ in length.
C13_ContractViolationSignalled ==
    /\ (hist.called /\ hist.numBins <= 0 /\ Len(values) > 0) => hist.outcome # "returned"
    /\ (loaded.called /\ FieldNames \subseteq DOMAIN rawData /\ ~Parallel(rawData))
           => loaded.outcome # "returned"

\* C14: for a non-empty input with min < max createHistogram returns exactly numBins
\* bins (20 by default) of equal width (max - min) / numBins in ascending order: bin i
\* starts at min + i * width and ends where bin i + 1 starts, the first bin starts at min
\* and the last bin ends at max (starts are the doubles of the bins, ends are seen
\* through the printed range).
C14_EqualWidthBins ==
    (HistogramReturned /\ \E k \in 1..Len(values) : values[k] # values[1]) =>
        LET n == hist.numBins
            min == DFromRat(CHOOSE v \in Elements(values) : IsMin(values, v))
            max == DFromRat(CHOOSE v \in Elements(values) : IsMax(values, v))
            width == DDivInt(DSub(max, min), n)
            start(i) == DAdd(min, DMulInt(i, width))
        IN  /\ Len(hist.ret) = n
            /\ \A i \in 0..(n - 1) :
                   /\ hist.ret[i + 1].x = start(i)
                   /\ hist.ret[i + 1].range[1] = DToFixed2(start(i))
            /\ \A i \in 1..(n - 1) :
                   /\ DLt(hist.ret[i].x, hist.ret[i + 1].x)
                   /\ hist.ret[i].range[2] = hist.ret[i + 1].range[1]
            /\ hist.ret[1].x = min
            /\ hist.ret[n].range[2] = DToFixed2(max)

\* C15: every dataset returned by processData satisfies the parallel-array invariant, all
\* thirteen arrays having one length: the generated sample dataset and any loaded dataset
\* that is passed through.
C15_ReturnedDatasetParallel ==
    (loaded.called /\ loaded.outcome = "returned") => Parallel(loaded.ret)

\* a defined number: neither undefined nor NaN
IsNumber(x) == x[2] > 0

C17_LoadedOrFiveHundredSamples ==
    (loaded.called /\ rawData # JsonNull) =>
        /\ loaded.outcome = "returned"
        /\ IF "wer" \in DOMAIN rawData /\ Len(rawData.wer) > 0
           THEN loaded.ret = rawData
           ELSE /\ loaded.ret # rawData
                /\ DOMAIN loaded.ret = FieldNames
                /\ \A f \in FieldNames : Len(loaded.ret[f]) = 500
        /\ Len(loaded.ret.wer) > 0

\* C17 witness: processData has returned 500 samples for a parsed object that has a
\* duration_sec array and no wer array.
C17_Witness ==
    /\ loaded.called
    /\ "wer" \notin DOMAIN rawData
    /\ "duration_sec" \in DOMAIN rawData
    /\ Len(loaded.ret.wer) = 500

\* C18: every sample produced by generateSampleData lies in the documented ranges:
\* duration between 5 and 50 seconds, speaking rate (word_count / duration) between 2 and
\* 4 words per second, wer between 0 and 1.
C18_SampleRanges ==
    (loaded.called /\ rawData # JsonNull /\ NoWer(rawData)) =>
        \A i \in 1..Len(loaded.ret.wer) :
            LET duration == loaded.ret.duration_sec[i]
                rate == loaded.ret.speaking_rate[i]
                wer == loaded.ret.wer[i]
            IN  /\ RLe(R(5), duration) /\ RLe(duration, R(50))
                /\ rate = RDiv(loaded.ret.word_count[i], duration)
                /\ RLe(R(2), rate) /\ RLe(rate, R(4))
                /\ RLe(R(0), wer) /\ RLe(wer, R(1))

\* a dataset made by generateSampleData: 500 samples, the texts those of the generator
Synthetic(d) ==
    /\ Parallel(d)
    /\ Len(d.wer) = 500
    /\ d.pred_text[1] = <<"predicted", 0>>
    /\ d.gt_text[500] = <<"ground truth", 499>>

\* the fetch has settled
Settled == request.stage \notin {"idle", "pending"}

\* the page shows the dashboard with data and kpis set, kpis being the KPIs of data
LeftLoading ==
    /\ home.isClient
    /\ home.data # JsonNull
    /\ home.kpis # JsonNull
    /\ home.kpis = calculateKPIs(home.data).ret
    /\ screen.page = "dashboard"

\* C19 as stated: once the fetch has settled the page leaves its loading state with data
\* and kpis set, with the loaded data when the response is ok and processing does not
\* throw, and with the synthetic sample data when the response is not ok, the fetch
\* rejects, the JSON is invalid or processing throws.
C19_LoadedDataOrSampleOnFailure ==
    /\ [](request.stage = "done" =>
             /\ LeftLoading
             /\ IF request.kind = "json" /\ ~request.caught
                THEN home.data = request.body
                ELSE Synthetic(home.data))
    /\ Settled ~> (request.stage = "done")

\* C19 amended: as above, where an ok response that is processed without a throw leaves
\* the result of processData: the loaded data when its wer array is present and not
\* empty, the synthetic sample data otherwise.
C19_ProcessedDataOrSampleOnFailure ==
    /\ [](request.stage = "done" =>
             /\ LeftLoading
             /\ IF request.kind = "json" /\ ~request.caught /\ ~NoWer(request.body)
                THEN home.data = request.body
                ELSE Synthetic(home.data))
    /\ Settled ~> (request.stage = "done")

\* C19 witness: the body of an ok response was not JSON, the catch handler has run and
\* the dashboard is shown.
C19_Witness ==
    /\ request.stage = "done"
    /\ request.kind = "invalidJson"
    /\ request.caught
    /\ screen.page = "dashboard"

\* C20: nothing that depends on the data or on random values is rendered before client
\* initialization: while isClient is false or data or kpis is null the page shows the
\* loading placeholder alone, the chart shows "Loading chart..." alone while its own
\* isClient is false, and no data exists before the mount effect and the reactions it
\* registers have run, so none is generated during a render.
C20_PlaceholdersUntilInitialized ==
    /\ (~home.isClient \/ home.data = JsonNull \/ home.kpis = JsonNull) =>
           screen = LoadingScreen
    /\ (screen.page = "dashboard" /\ ~chart.isClient) =>
           screen.chart = [text |-> "Loading chart...", bins |-> <<>>]
    /\ (~home.isClient \/ request.stage \in {"idle", "pending", "response"}) =>
           (home.data = JsonNull /\ home.kpis = JsonNull)

\* C20 witness: data is set and kpis is still null (calculateKPIs threw after setData)
\* and the page shows the loading placeholder.
C20_Witness ==
    /\ home.isClient
    /\ home.data # JsonNull
    /\ home.kpis = JsonNull
    /\ screen = LoadingScreen

\* the number of indices of M below k
Before(M, k) == Cardinality({m \in M : m < k})

\* C22: the scatter plot never renders more than MAX_POINTS = 5000 points: a point list
\* longer than that is sampled to every step-th point, step = ceil(length / 5000),
\* beginning with the first point; a list of at most 5000 points is shown whole and
\* without the sampling notice.
C22_AtMostMaxPoints ==
    scatter.called =>
        LET n == Len(points)
            shown == scatter.sampledData
        IN  /\ Len(shown) <= MAX_POINTS
            /\ IF n > MAX_POINTS
               THEN LET step == (n + MAX_POINTS - 1) \div MAX_POINTS
                    IN  /\ scatter.isSampled
                        /\ Len(shown) = (n + step - 1) \div step
                        /\ \A j \in 1..Len(shown) :
                               shown[j] = <<(j - 1) * step, points[(j - 1) * step + 1]>>
                        /\ shown[1] = <<0, points[1]>>
               ELSE /\ ~scatter.isSampled
                    /\ Len(shown) = n
                    /\ \A j \in 1..n : shown[j] = <<j - 1, points[j]>>

\* C22 witness: a list of more than 5000 points whose length is no multiple of 5000 has
\* been sampled, and fewer points than the list has are shown.
C22_Witness ==
    /\ scatter.called /\ scatter.isSampled
    /\ Len(points) % MAX_POINTS # 0
    /\ Len(scatter.sampledData) > 1
    /\ Len(scatter.sampledData) < Len(points)

\* wer is in the class the filter names: high is wer >= 0.5, medium 0.2 <= wer < 0.5,
\* low wer < 0.2 (wer = <<n, d>> with d > 0)
InClass(wer, werFilter) ==
    IF werFilter = "high" THEN 2 * wer[1] >= wer[2]
    ELSE IF werFilter = "medium" THEN 5 * wer[1] >= wer[2] /\ 2 * wer[1] < wer[2]
    ELSE 5 * wer[1] < wer[2]

\* C23: getFilteredExamples returns at most 5 examples, the first samples in dataset
\* order whose wer matches the selected filter, each with the predicted and the
\* ground-truth text of the same index; it returns the empty list when the wer array is
\* missing or empty.
C23_FirstFiveMatching ==
    examples.called =>
        IF "wer" \notin DOMAIN data \/ Len(data.wer) = 0 THEN examples.ret = <<>>
        ELSE LET M == {k \in 1..Len(data.wer) : InClass(data.wer[k], examples.werFilter)}
                 ret == examples.ret
             IN  /\ Len(ret) <= 5
                 /\ Len(ret) = IF Cardinality(M) < 5 THEN Cardinality(M) ELSE 5
                 /\ \A j \in 1..Len(ret) :
                        LET k == CHOOSE m \in M : Before(M, m) = j - 1
                        IN  /\ ret[j].index = k - 1
                            /\ ret[j].wer = data.wer[k]
                            /\ ret[j].pred = IF "pred_text" \in DOMAIN data
                                                 /\ k <= Len(data.pred_text)
                                             THEN data.pred_text[k] ELSE EmptyText
                            /\ ret[j].gt = IF "gt_text" \in DOMAIN data
                                               /\ k <= Len(data.gt_text)
                                           THEN data.gt_text[k] ELSE EmptyText

\* C23 witness: five examples were returned for a dataset in which more than five
\* samples match the filter and the first sample does not.
C23_Witness ==
    /\ examples.called
    /\ "wer" \in DOMAIN data
    /\ Len(examples.ret) = 5
    /\ Cardinality({k \in 1..Len(data.wer) : InClass(data.wer[k], examples.werFilter)}) > 5
    /\ ~InClass(data.wer[1], examples.werFilter)
    /\ examples.ret[1].pred = <<"pred", 2>>

\* C28: for every non-empty array median(arr) <= percentile(arr, 90), and for arrays of
\* fewer than 10 elements percentile(arr, 90) is the maximum; the KPIs of a dataset have
\* medianWer <= p90Wer.
C28_MedianAtMostP90 ==
    /\ (stat.fn = "percentile" /\ stat.param = R(P90) /\ Len(arr) > 0) =>
           LET n == Len(arr)
               twiceMedian == IF n % 2 = 1 THEN RMul(R(2), KthSmallest(arr, (n + 1) \div 2))
                              ELSE RAdd(KthSmallest(arr, n \div 2),
                                        KthSmallest(arr, n \div 2 + 1))
           IN  /\ RLe(twiceMedian, RMul(R(2), stat.ret))
               /\ n < 10 => IsMax(arr, stat.ret)
               /\ arr = <<R(1), R(2), R(3), R(4)>> =>
                      stat.ret = R(4) /\ twiceMedian = R(5)
    /\ (kpis.called /\ "wer" \in DOMAIN data /\ Len(data.wer) > 0) =>
           RLe(kpis.ret.medianWer, kpis.ret.p90Wer)

\* C28 witness: percentile(arr, 90) has returned for an array of ten elements, a value
\* above the median and below the maximum.
C28_Witness ==
    /\ stat.fn = "percentile" /\ stat.param = R(P90)
    /\ Len(arr) = 10
    /\ ~IsMax(arr, stat.ret)
    /\ RLt(KthSmallest(arr, 6), stat.ret)

\* C29: every wer value matches exactly one of the filters low, medium and high, and
\* the samples the high filter matches are the samples counted in the highWerPct KPI.
C29_FiltersPartition ==
    (examples.called /\ "wer" \in DOMAIN data /\ Len(data.wer) > 0) =>
        LET wer == data.wer
            matched(f) == {k \in 1..Len(wer) : matchesFilter(wer[k], f)}
        IN  /\ \A k \in 1..Len(wer) :
                   Cardinality({f \in WerFilters : matchesFilter(wer[k], f)}) = 1
            /\ matched("high") = {k \in 1..Len(wer) : RGe(wer[k], HighWerThreshold)}
            /\ highWerPct(wer, HighWerThreshold) =
                   Rat(100 * Cardinality(matched("high")), Len(wer))
            /\ \A j \in 1..Len(examples.ret) :
                   examples.ret[j].index + 1 \in matched(examples.werFilter)

\* C29 witness: examples were returned for a dataset that holds a wer value of each
\* class, the thresholds 0.2 and 0.5 among them.
C29_Witness ==
    /\ examples.called /\ "wer" \in DOMAIN data
    /\ Len(examples.ret) >= 1
    /\ {Rat(1, 10), Rat(1, 5), Rat(1, 2)} \subseteq {data.wer[k] : k \in 1..Len(data.wer)}

\* C21: from a call of handleFeatureChange until the selected feature is the feature
\* requested last, isChangingFeature stays true, however the calls and their 100 ms
\* timers interleave: while a timer is pending the loader is shown.
C21_LoaderCoversPendingChange ==
    timers # <<>> => isChangingFeature

\* C24: once the fetch of /data/term_error_analysis.json has settled the word cloud
\* leaves its loading state and does not return to it; when the chain ends in the catch
\* handler termData is still null, the component shows "No term error data available"
\* and no layout was started.
C24_LoadingEndsOnceSettled ==
    /\ [](termsRequest.stage = "done" => ~cloud.isLoading)
    /\ [](termsRequest.stage \in {"rejected", "response", "json"} => <>(~cloud.isLoading))
    /\ [](~cloud.isLoading => [](~cloud.isLoading))
    /\ [](termsRequest.caught =>
              /\ cloud.termData = JsonNull
              /\ cloudScreen = "No term error data available"
              /\ layout = "none"
              /\ cloud.words = <<>>)

\* C24 witness: the body of the response was no JSON, the catch handler has run and the
\* component is not loading.
C24_Witness ==
    /\ termsRequest.kind = "invalidJson" /\ termsRequest.caught
    /\ ~cloud.isLoading
    /\ cloudScreen = "No term error data available"

\* C25: with the duration feature selected, the number of outliers the caption reports
\* is the number of duration values left out of the data passed to the histogram, and
\* the caption is shown whenever a value was left out.
C25_CaptionCountsExcluded ==
    (entry = "features" /\ selectedFeature = "duration_sec") =>
        LET excluded == Len(home.data.duration_sec) - Len(featureChart.chartData)
        IN  /\ featureChart.caption.shown <=> excluded > 0
            /\ featureChart.caption.shown => featureChart.caption.outliers = excluded

\* C27: after any sequence of handleFeatureChange calls, once all their timers have
\* fired the selected feature is the feature requested last and isChangingFeature is
\* false.
C27_LastRequestWins ==
    (entry = "features" /\ timers = <<>>) =>
        selectedFeature = requested.newFeature /\ ~isChangingFeature

\* C27 witness: a feature was requested while the timers of two earlier requests were
\* pending, all timers have fired and a feature other than the initial one is selected.
C27_Witness ==
    /\ entry = "features"
    /\ requested.pending = 2
    /\ timers = <<>>
    /\ selectedFeature # InitialFeature
    /\ selectedFeature = requested.newFeature

\* C26: whenever the page shows the dashboard, the kpis displayed are the KPIs that
\* calculateKPIs returns for the dataset held in data, also after calculateKPIs threw
\* in the success handler (data set, kpis not) and the catch handler ran.
C26_KpisOfDisplayedData ==
    (entry = "page" /\ screen.page = "dashboard") =>
        /\ home.data # JsonNull
        /\ calculateKPIs(home.data).outcome = "returned"
        /\ home.kpis = calculateKPIs(home.data).ret
        /\ screen.kpis = home.kpis
        /\ screen.samples = Len(home.data.wer)

\* C26 witness: the body held a wer array alone, so calculateKPIs threw after setData;
\* the catch handler has run and the dashboard shows the sample data with its KPIs.
C26_Witness ==
    /\ entry = "page"
    /\ request.kind = "json" /\ request.caught
    /\ request.body # JsonNull /\ ~NoWer(request.body)
    /\ screen.page = "dashboard"
    /\ home.data # request.body
    /\ Len(home.data.wer) = SampleCount
    /\ screen.kpis = calculateKPIs(home.data).ret

\* C30: no input value is counted in more than one bin: the intervals
\* [binStart, binEnd) of the bins are pairwise disjoint, each ending no later than the
\* next begins, so the counts sum to no more than the input length.
C30_BinsDisjoint ==
    HistogramReturned =>
        LET n == Len(hist.ret)
            v == Doubles(values)
            binWidth == DDivInt(DSub(MathMax(v), MathMin(v)), hist.numBins)
            binEnd(i) == DAdd(hist.ret[i].x, binWidth)
        IN  /\ \A i \in 1..(n - 1) : DLe(binEnd(i), hist.ret[i + 1].x)
            /\ \A k \in 1..Len(v) :
                   Cardinality({i \in 1..n : DGe(v[k], hist.ret[i].x)
                                              /\ DLt(v[k], binEnd(i))}) <= 1
            /\ SumCounts(hist.ret) <= Len(values)
====
